---- MODULE Spec2Model ----
\* Writer/Reviewer group chat of src/Agents/writer_and_reviewer.py:
\* the interaction loop (_handle_user_interaction), one orchestration run
\* per request (_run_orchestration) and the round-robin turn taking that the
\* run is configured with (members, max_rounds, agent_response_callback).
EXTENDS Integers, Sequences, FiniteSets, TLC

\* ---------------------------------------------------------------- bounds
MaxPrompts == 3          \* inputs read by one session
MaxMembers == 3          \* longest members list tried
RoundsBound == 3
MaxTracingCalls == 3     \* calls of each kind on the tracing utilities
MaxChat == 2             \* lines typed into the news reporter chat loop
MaxTools == 1            \* plugin functions the model invokes for one reply
MaxMessages == 3         \* messages a listed thread holds         \* max_rounds tried: 1..RoundsBound and MAX_ROUNDS

\* ------------------------------------------------------ program constants
WRITER_NAME == "Writer"
REVIEWER_NAME == "Reviewer"
MAX_ROUNDS == 5

\* names of members beyond the two of the program
ExtraNames == <<"Editor", "Critic", "Proofreader", "Publisher">>
AllNames == <<WRITER_NAME, REVIEWER_NAME>> \o ExtraNames

\* what a text-generation call can answer
GeneratorOutputs == {"Draft v1", "Needs work.", "The article is good to go."}
NoResult == "<no result>"

\* ------------------------------------------------------------ environment
EnvNames == {"AZURE_OPENAI_API_KEY", "AZURE_OPENAI_CHAT_DEPLOYMENT_NAME",
             "AZURE_OPENAI_ENDPOINT", "AZURE_OPENAI_API_VERSION"}
\* os.getenv: <<>> is None (unset), <<v>> is the string v
EnvValues == {<<>>, <<"">>, <<"k3y">>, <<"gpt-4o">>, <<"https://aoai">>,
              <<"2024-10-21">>}
\* the value a variable has when it is set to something
EnvSetting(n) == CASE n = "AZURE_OPENAI_API_KEY" -> <<"k3y">>
                   [] n = "AZURE_OPENAI_CHAT_DEPLOYMENT_NAME" -> <<"gpt-4o">>
                   [] n = "AZURE_OPENAI_ENDPOINT" -> <<"https://aoai">>
                   [] OTHER -> <<"2024-10-21">>
Environments == {e \in [EnvNames -> EnvValues] :
                    \A n \in EnvNames : e[n] \in {<<>>, <<"">>, EnvSetting(n)}}
\* mutant: only an unset variable is missing, an empty one passes
TruthyNotNone(x) == x # <<>>
Truthy(x) == x # <<>> /\ x[1] # ""

\* --------------------------------------------------------------- inputs
\* a line typed at the prompt, as a sequence of characters
Whitespace == {" ", "\t"}
Inputs == { <<>>, <<" ">>,
            <<"e","x","i","t">>, <<" ","E","x","I","t","\t">>,
            <<"e","x","i","t","s">>, <<" ","h","i">> }

RECURSIVE LStrip(_)
LStrip(s) == IF s # <<>> /\ Head(s) \in Whitespace THEN LStrip(Tail(s)) ELSE s
RECURSIVE RStrip(_)
RStrip(s) == IF s # <<>> /\ s[Len(s)] \in Whitespace
             THEN RStrip(SubSeq(s, 1, Len(s) - 1)) ELSE s
Strip(s) == RStrip(LStrip(s))

LowerChar(c) == CASE c = "E" -> "e" [] c = "X" -> "x" [] c = "I" -> "i"
                  [] c = "T" -> "t" [] c = "H" -> "h" [] c = "S" -> "s"
                  [] c = "R" -> "r" [] c = "U" -> "u" [] c = "F" -> "f"
                  [] c = "A" -> "a" [] c = "L" -> "l"
                  [] OTHER -> c
\* mutant: the case is kept, the comparison is case-sensitive
LowerIdentity(s) == s
Lower(s) == [i \in 1..Len(s) |-> LowerChar(s[i])]
ExitWord == <<"e","x","i","t">>

VARIABLES
    env,            \* the process environment
    members,        \* GroupChatOrchestration(members=...)
    max_rounds,     \* RoundRobinGroupChatManager(max_rounds=...)
    pc,             \* "prompt" | "awaiting" | "exited"
    prompts,        \* inputs read so far
    runs,           \* calls of _run_orchestration so far
    task,           \* the task of the latest run
    state,          \* "Idle" | "Running" | "Completed" | "Failed" | "RoundLimitReached"
    transcript,     \* the chat history of the latest run
    rounds,         \* turns taken in the latest run
    inflight,       \* index of the member whose call is pending, 0 if none
    calls,          \* generation calls issued in the latest run
    observed,       \* messages handed to _agent_response_callback
    result,         \* value returned by _run_orchestration
    raised,         \* exception that left _run_orchestration
    started,        \* runtime.start() calls
    stopped,        \* runtime.stop_when_idle() calls
    service,        \* arguments of AzureChatCompletion in the latest run, <<>> if none
    typed,          \* the line input() returned last
    stub,           \* fixed reply of each member when the members are stubs, else <<>>
    prev            \* the finished run before the latest one, kept for stubbed sessions

sessionvars == <<env, members, max_rounds, pc, prompts, runs, task, state, transcript,
          rounds, inflight, calls, observed, result, raised, started, stopped,
          typed, stub, prev, service>>

VARIABLES
    tenv,                    \* os.environ as the tracing utilities see it
    tenv0,                   \* the same, as it was when the process started
    enable_console_tracing,  \* ENABLE_CONSOLE_TRACING: <<>> unset, <<chars>> set
    setups,                  \* calls of the two environment setup functions
    config,                  \* dict setup_environment_variables returned, <<>> if none
    client_endpoint,         \* endpoint setup_tracing_environment used, <<>> if none
    tracer,                  \* TracingManager.tracer, <<>> is None
    console_tracing_enabled, \* TracingManager.console_tracing_enabled
    console_setups,          \* calls of TracingManager.setup_console_tracing
    tracer_inits,            \* calls of TracingManager.initialize_tracer
    tracer_gets,             \* calls of TracingManager.get_tracer
    tracer_returned          \* what the latest manager call returned, <<>> if none
tracingvars == <<tenv, tenv0, enable_console_tracing, setups, config,
                 client_endpoint, tracer, console_tracing_enabled,
                 console_setups, tracer_inits, tracer_gets, tracer_returned>>

VARIABLES
    chat_pc,        \* "verify" | "input" | "calling" | "ended" | "crashed"
    history,        \* ChatHistory of the news reporter chat loop
    sent,           \* the history each get_chat_message_content call received
    typed_log,      \* every line read by input(), in order
    thread,         \* the thread of the latest plugin call, oldest message first
    tool_result,    \* what the latest plugin call returned, <<>> if none
    tools_used      \* plugin calls made for the reply being computed
newsvars == <<chat_pc, history, sent, typed_log, thread, tool_result, tools_used>>

VARIABLES
    p_pc,           \* position in ai_agent_with_plugins.main
    agents_created, \* agents create_agent returned
    agents_deleted, \* agents passed to delete_agent
    run_status,     \* run.status, "none" before the run
    messages,       \* what messages.list returned
    file_id,        \* the local file_id, <<>> while unbound
    saved,          \* arguments of each files.save call
    final_printed,  \* the "Final conversation" was printed
    returned        \* what main returned: "pending" | "agent" | "None"
pluginvars == <<p_pc, agents_created, agents_deleted, run_status, messages,
                file_id, saved, final_printed, returned>>

vars == <<sessionvars, tracingvars, newsvars, pluginvars>>

\* ------------------------------------------------- programs not running
\* the tracing utilities were not imported
TracingQuiet ==
    /\ tenv = <<>> /\ tenv0 = <<>> /\ enable_console_tracing = <<>>
    /\ setups = 0 /\ config = <<>> /\ client_endpoint = <<>>
    /\ tracer = <<>> /\ console_tracing_enabled = FALSE
    /\ console_setups = 0 /\ tracer_inits = 0 /\ tracer_gets = 0
    /\ tracer_returned = <<>>
\* the news reporter was not started
NewsQuiet ==
    /\ chat_pc = "off" /\ history = <<>> /\ sent = <<>> /\ typed_log = <<>>
    /\ thread = <<>> /\ tool_result = <<>> /\ tools_used = 0
\* ai_agent_with_plugins.main was not called
PluginsQuiet ==
    /\ p_pc = "off" /\ agents_created = 0 /\ agents_deleted = 0
    /\ run_status = "none" /\ messages = <<>> /\ file_id = <<>>
    /\ saved = <<>> /\ final_printed = FALSE /\ returned = "pending"

Terminated == {"Completed", "Failed", "RoundLimitReached"}

\* ------------------------------------------------------- the run's pieces
\* _get_environment_variables: all four values present and non-empty
EnvComplete(e) == \A n \in EnvNames : Truthy(e[n])
\* the tuple _get_environment_variables returns, passed on by _get_agents
GetEnvironmentVariables(e) ==
    <<e["AZURE_OPENAI_API_KEY"][1], e["AZURE_OPENAI_CHAT_DEPLOYMENT_NAME"][1],
      e["AZURE_OPENAI_ENDPOINT"][1], e["AZURE_OPENAI_API_VERSION"][1]>>

\* mutant: the index is never wrapped back to the first member
NextSpeakerNoWrap(k, P) == IF k < P THEN k + 1 ELSE P
\* mutant: one manager for the session, the rotation goes on where the run
\* before stopped
NextSpeakerCarried(k, P) ==
    ((k + (IF prev.valid THEN Len(prev.transcript) - 1 ELSE 0)) % P) + 1
\* round-robin: the member (1-based index) that takes turn k (0-based)
NextSpeaker(k, P) == (k % P) + 1

\* mutant: off by one, a turn more than the budget
ShouldTerminateLate(r, N) == r > N
\* mutant: the run also ends once an earlier reply approved the article
ShouldTerminateOnApproval(r, N) ==
    \/ r >= N
    \/ \E i \in 2..Len(transcript) :
          transcript[i].content = "The article is good to go."
\* the round budget is used up
ShouldTerminate(r, N) == r >= N

\* mutant: the first reply instead of the last
FilterResultsFirst(t) == t[2].content
\* the value the orchestration hands back: the last message
FilterResults(t) == t[Len(t)].content

\* mutant: only the latest message is kept
ObserveLatestOnly(obs, turn) == <<turn>>
\* _agent_response_callback prints the message it is given
Observe(obs, turn) == Append(obs, turn)

Turn(s, c) == [speaker |-> s, content |-> c]
Call(k, s) == [round |-> k, speaker |-> s]

\* mutant: the run starts without the task in its history
SeedTranscriptEmpty(tk) == <<>>
\* mutant: the history of the run before is kept and the task added to it
SeedTranscriptKeep(tk) == Append(transcript, Turn("user", tk))
\* invoke(task=...): the history of a new run holds the task, as the user's
SeedTranscript(tk) == <<Turn("user", tk)>>

\* mutant: the newest message is put right after the task
AppendTurnFront(t, turn) == <<t[1], turn>> \o Tail(t)
\* a reply is added at the end of the history
AppendTurn(t, turn) == Append(t, turn)

\* what the pending call of member i can answer
Replies(i) == IF stub = <<>> THEN GeneratorOutputs ELSE {stub[i]}

NoRun == [valid |-> FALSE, task |-> <<>>, state |-> "Idle",
          transcript |-> <<>>, result |-> NoResult]
\* the run that a new request replaces, when it was a stubbed run that ended
Finished == IF stub # <<>> /\ state \in Terminated
            THEN [valid |-> TRUE, task |-> task, state |-> state,
                  transcript |-> transcript, result |-> result]
            ELSE prev

\* ------------------------------------------------------------------ Init
InitSession ==
    /\ env \in Environments
    /\ \E P \in 1..MaxMembers : members = SubSeq(AllNames, 1, P)
    /\ max_rounds \in (1..RoundsBound) \cup {MAX_ROUNDS}
    /\ pc = "prompt"
    /\ prompts = 0
    /\ runs = 0
    /\ task = <<>>
    /\ state = "Idle"
    /\ transcript = <<>>
    /\ rounds = 0
    /\ inflight = 0
    /\ calls = <<>>
    /\ observed = <<>>
    /\ result = NoResult
    /\ raised = "none"
    /\ started = 0
    /\ stopped = 0
    /\ typed = <<>>
    /\ prev = NoRun
    /\ service = <<>>
    /\ TracingQuiet /\ NewsQuiet /\ PluginsQuiet

\* the writer-reviewer session is not running
SessionQuiet ==
    /\ env = [n \in EnvNames |-> <<>>]
    /\ members = <<WRITER_NAME, REVIEWER_NAME>>
    /\ max_rounds = MAX_ROUNDS
    /\ pc = "off" /\ prompts = 0 /\ runs = 0 /\ task = <<>>
    /\ state = "Idle" /\ transcript = <<>> /\ rounds = 0 /\ inflight = 0
    /\ calls = <<>> /\ observed = <<>> /\ result = NoResult
    /\ raised = "none" /\ started = 0 /\ stopped = 0 /\ typed = <<>>
    /\ prev = NoRun /\ service = <<>> /\ stub = <<>>

\* the members call the model: any reply may come
Init == InitSession /\ stub = <<>>

\* the members are deterministic stubs: each returns its fixed string
\* (stubs take the place of the agents, so the environment is complete)
InitStubs ==
    /\ InitSession
    /\ EnvComplete(env)
    /\ stub \in [1..Len(members) -> GeneratorOutputs]

\* --------------------------------------------------------------- actions
\* an empty line: `continue`
EmptyInput ==
    /\ pc = "prompt" /\ prompts < MaxPrompts
    /\ \E inp \in Inputs : Strip(inp) = <<>> /\ typed' = inp
    /\ prompts' = prompts + 1
    /\ UNCHANGED <<env, members, max_rounds, pc, runs, task, state, transcript,
                   rounds, inflight, calls, observed, result, raised,
                   started, stopped, stub, prev, service,
                   tracingvars, newsvars, pluginvars>>

\* 'exit' in any case: `break`
ExitInput ==
    /\ pc = "prompt" /\ prompts < MaxPrompts
    /\ \E inp \in Inputs :
          Strip(inp) # <<>> /\ Lower(Strip(inp)) = ExitWord /\ typed' = inp
    /\ prompts' = prompts + 1
    /\ pc' = "exited"
    /\ UNCHANGED <<env, members, max_rounds, runs, task, state, transcript,
                   rounds, inflight, calls, observed, result, raised,
                   started, stopped, stub, prev, service,
                   tracingvars, newsvars, pluginvars>>

\* mutant: every member is asked at once, as a concurrent orchestration would
RequestBroadcast ==
    /\ pc = "prompt" /\ prompts < MaxPrompts
    /\ \E inp \in Inputs :
        /\ Strip(inp) # <<>> /\ Lower(Strip(inp)) # ExitWord
        /\ typed' = inp
        /\ prev' = Finished
        /\ prompts' = prompts + 1
        /\ runs' = runs + 1
        /\ task' = Strip(inp)
        /\ rounds' = 0
        /\ observed' = <<>>
        /\ result' = NoResult
        /\ IF ~EnvComplete(env)
           THEN \* _get_agents raises ValueError, caught by the loop
                /\ raised' = "ValueError"
                /\ service' = <<>>
                /\ state' = "Idle"
                /\ transcript' = <<>>
                /\ inflight' = 0
                /\ calls' = <<>>
                /\ pc' = "prompt"
                /\ UNCHANGED <<started, stopped>>
           ELSE \* runtime.start(); invoke(task): seed, first member asked
                /\ raised' = "none"
                /\ service' = GetEnvironmentVariables(env)
                /\ started' = started + 1
                /\ state' = "Running"
                /\ transcript' = SeedTranscript(Strip(inp))
                /\ inflight' = NextSpeaker(0, Len(members))
                /\ calls' = [i \in 1..Len(members) |-> Call(1, members[i])]
                /\ pc' = "awaiting"
                /\ UNCHANGED stopped
    /\ UNCHANGED <<env, members, max_rounds, stub, tracingvars, newsvars, pluginvars>>

\* any other line: _run_orchestration(user_input) up to its first await
Request ==
    /\ pc = "prompt" /\ prompts < MaxPrompts
    /\ \E inp \in Inputs :
        /\ Strip(inp) # <<>> /\ Lower(Strip(inp)) # ExitWord
        /\ typed' = inp
        /\ prev' = Finished
        /\ prompts' = prompts + 1
        /\ runs' = runs + 1
        /\ task' = Strip(inp)
        /\ rounds' = 0
        /\ observed' = <<>>
        /\ result' = NoResult
        /\ IF ~EnvComplete(env)
           THEN \* _get_agents raises ValueError, caught by the loop
                /\ raised' = "ValueError"
                /\ service' = <<>>
                /\ state' = "Idle"
                /\ transcript' = <<>>
                /\ inflight' = 0
                /\ calls' = <<>>
                /\ pc' = "prompt"
                /\ UNCHANGED <<started, stopped>>
           ELSE \* runtime.start(); invoke(task): seed, first member asked
                /\ raised' = "none"
                /\ service' = GetEnvironmentVariables(env)
                /\ started' = started + 1
                /\ state' = "Running"
                /\ transcript' = SeedTranscript(Strip(inp))
                /\ inflight' = NextSpeaker(0, Len(members))
                /\ calls' = <<Call(1, members[NextSpeaker(0, Len(members))])>>
                /\ pc' = "awaiting"
                /\ UNCHANGED stopped
    /\ UNCHANGED <<env, members, max_rounds, stub, tracingvars, newsvars, pluginvars>>

\* mutant: at the round limit the next member is still asked once
ParticipantRespondsLeak ==
    /\ pc = "awaiting"
    /\ \E c \in Replies(inflight) :
        LET turn == Turn(members[inflight], c)
            t2   == Append(transcript, turn)
            r2   == rounds + 1
        IN  /\ transcript' = t2
            /\ observed' = Observe(observed, turn)
            /\ rounds' = r2
            /\ IF r2 > max_rounds
               THEN /\ state' = "RoundLimitReached"
                    /\ result' = FilterResults(t2)
                    /\ inflight' = 0
                    /\ stopped' = stopped + 1
                    /\ pc' = "prompt"
                    /\ UNCHANGED calls
               ELSE /\ state' = IF r2 = max_rounds THEN "RoundLimitReached" ELSE state
                    /\ inflight' = NextSpeaker(r2, Len(members))
                    /\ calls' = Append(calls,
                          Call(r2 + 1, members[NextSpeaker(r2, Len(members))]))
                    /\ UNCHANGED <<result, stopped, pc>>
    /\ UNCHANGED <<env, members, max_rounds, prompts, runs, task, raised, started,
                   typed, stub, prev, service,
                   tracingvars, newsvars, pluginvars>>

\* the pending generation call answers c
ParticipantResponds ==
    /\ pc = "awaiting"
    /\ \E c \in Replies(inflight) :
        LET turn == Turn(members[inflight], c)
            t2   == AppendTurn(transcript, turn)
            r2   == rounds + 1
        IN  /\ transcript' = t2
            /\ observed' = Observe(observed, turn)
            /\ rounds' = r2
            /\ IF ShouldTerminate(r2, max_rounds)
               THEN /\ state' = "RoundLimitReached"
                    /\ result' = FilterResults(t2)
                    /\ inflight' = 0
                    /\ stopped' = stopped + 1
                    /\ pc' = "prompt"
                    /\ UNCHANGED calls
               ELSE /\ inflight' = NextSpeaker(r2, Len(members))
                    /\ calls' = Append(calls,
                          Call(r2 + 1, members[NextSpeaker(r2, Len(members))]))
                    /\ UNCHANGED <<state, result, stopped, pc>>
    /\ UNCHANGED <<env, members, max_rounds, prompts, runs, task, raised, started,
                   typed, stub, prev, service,
                   tracingvars, newsvars, pluginvars>>

\* mutant: a turn is appended for the failed invocation
ParticipantRaisesAppends ==
    /\ pc = "awaiting"
    /\ state' = "Failed"
    /\ raised' = "ParticipantFailure"
    /\ transcript' = Append(transcript, Turn(members[inflight], "Needs work."))
    /\ inflight' = 0
    /\ stopped' = stopped + 1
    /\ pc' = "prompt"
    /\ UNCHANGED <<env, members, max_rounds, prompts, runs, task,
                   rounds, calls, observed, result, started,
                   typed, stub, prev, service,
                   tracingvars, newsvars, pluginvars>>

\* mutant: the failed call is issued once more before giving up
ParticipantRaisesRetry ==
    /\ pc = "awaiting"
    /\ IF Len(calls) = rounds + 1
       THEN /\ calls' = Append(calls, Call(rounds + 1, members[inflight]))
            /\ UNCHANGED <<state, raised, inflight, stopped, pc>>
       ELSE /\ state' = "Failed"
            /\ raised' = "ParticipantFailure"
            /\ inflight' = 0
            /\ stopped' = stopped + 1
            /\ pc' = "prompt"
            /\ UNCHANGED calls
    /\ UNCHANGED <<env, members, max_rounds, prompts, runs, task, transcript,
                   rounds, observed, result, started,
                   typed, stub, prev, service,
                   tracingvars, newsvars, pluginvars>>

\* mutant: no finally, the runtime is left running after a failure
ParticipantRaisesNoStop ==
    /\ pc = "awaiting"
    /\ state' = "Failed"
    /\ raised' = "ParticipantFailure"
    /\ inflight' = 0
    /\ pc' = "prompt"
    /\ UNCHANGED <<env, members, max_rounds, prompts, runs, task, transcript,
                   rounds, calls, observed, result, started, stopped,
                   typed, stub, prev, service,
                   tracingvars, newsvars, pluginvars>>

\* the pending generation call raises: try/finally, then the loop's except
ParticipantRaises ==
    /\ pc = "awaiting"
    /\ state' = "Failed"
    /\ raised' = "ParticipantFailure"
    /\ inflight' = 0
    /\ stopped' = stopped + 1
    /\ pc' = "prompt"
    /\ UNCHANGED <<env, members, max_rounds, prompts, runs, task, transcript,
                   rounds, calls, observed, result, started,
                   typed, stub, prev, service,
                   tracingvars, newsvars, pluginvars>>

Next ==
    \/ EmptyInput
    \/ ExitInput
    \/ Request
    \/ ParticipantResponds
    \/ ParticipantRaises

Spec == Init /\ [][Next]_vars

\* a session whose members are deterministic stubs
SpecStubs == InitStubs /\ [][Next]_vars

TypeOK ==
    /\ pc \in {"prompt", "awaiting", "exited"}
    /\ state \in {"Idle", "Running"} \cup Terminated
    /\ rounds \in 0..(MAX_ROUNDS + RoundsBound)
    /\ inflight \in 0..Len(members)
\* ===================================================== tracing utilities
\* src/Tracing/tracing_utils.py and src/Tracing/tracing_application.py
TracingNames == {"AZURE_OPENAI_API_VERSION", "OPENAI_API_VERSION",
                 "AZURE_AI_AGENT_ENDPOINT"}
\* values the process may start with (after load_dotenv, which keeps what
\* is already set): <<>> unset, <<"">> empty, or one setting
TracingSetting(n) == CASE n = "AZURE_OPENAI_API_VERSION" -> <<"2024-10-21">>
                       [] n = "OPENAI_API_VERSION" -> <<"2023-05-15">>
                       [] OTHER -> <<"https://foundry">>
TracingEnvironments ==
    {e \in [TracingNames -> {<<>>, <<"">>, <<"2024-10-21">>, <<"2023-05-15">>,
                              <<"https://foundry">>}] :
        \A n \in TracingNames : e[n] \in {<<>>, <<"">>, TracingSetting(n)}}
\* ENABLE_CONSOLE_TRACING: unset, or a line of characters
ConsoleFlags == {<<>>, <<<<>>>>, <<<<"t","r","u","e">>>>, <<<<"T","r","u","e">>>>,
                 <<<<"T","R","U","E">>>>, <<<<"f","a","l","s","e">>>>,
                 <<<<"1">>>>, <<<<"t","r","u","e"," ">>>>}
DefaultApiVersion == "2024-02-15-preview"
DefaultEndpoint ==
    "https://semantic-aifoundry.services.ai.azure.com/api/projects/firstProject"
TheTracer == "tracer"        \* trace.get_tracer(service_name)

\* mutant: the Azure version wins over an existing OPENAI_API_VERSION
ResolveApiVersionPreferAzure(e) ==
    IF Truthy(e["AZURE_OPENAI_API_VERSION"])
    THEN e["AZURE_OPENAI_API_VERSION"]
    ELSE IF ~Truthy(e["OPENAI_API_VERSION"])
         THEN <<DefaultApiVersion>>
         ELSE e["OPENAI_API_VERSION"]
\* the value OPENAI_API_VERSION has after the if/elif/else of both setups
ResolveApiVersion(e) ==
    IF Truthy(e["AZURE_OPENAI_API_VERSION"]) /\ ~Truthy(e["OPENAI_API_VERSION"])
    THEN e["AZURE_OPENAI_API_VERSION"]
    ELSE IF ~Truthy(e["OPENAI_API_VERSION"])
         THEN <<DefaultApiVersion>>
         ELSE e["OPENAI_API_VERSION"]
\* endpoint = azure_ai_foundry_endpoint or "<hardcoded>"
ResolveEndpoint(e) ==
    IF Truthy(e["AZURE_AI_AGENT_ENDPOINT"])
    THEN e["AZURE_AI_AGENT_ENDPOINT"][1]
    ELSE DefaultEndpoint

\* os.getenv("ENABLE_CONSOLE_TRACING", "false").lower() == "true"
ConsoleTracingRequested(f) ==
    Lower(IF f = <<>> THEN <<"f","a","l","s","e">> ELSE f[1]) = <<"t","r","u","e">>
\* mutant: console tracing is set up on every initialization that asks for it
ShouldSetUpConsoleAgain(requested, enabled) == requested
\* if console_tracing_requested and not self.console_tracing_enabled
ShouldSetUpConsole(requested, enabled) == requested /\ ~enabled

InitTracing ==
    /\ SessionQuiet /\ NewsQuiet /\ PluginsQuiet
    /\ tenv \in TracingEnvironments
    /\ tenv0 = tenv
    /\ enable_console_tracing \in ConsoleFlags
    /\ setups = 0 /\ config = <<>> /\ client_endpoint = <<>>
    /\ tracer = <<>> /\ console_tracing_enabled = FALSE
    /\ console_setups = 0 /\ tracer_inits = 0 /\ tracer_gets = 0
    /\ tracer_returned = <<>>

\* tracing_utils.setup_environment_variables()
SetupEnvironmentVariables ==
    /\ setups < MaxTracingCalls
    /\ setups' = setups + 1
    /\ tenv' = [tenv EXCEPT !["OPENAI_API_VERSION"] = ResolveApiVersion(tenv)]
    /\ config' = [api_version |-> tenv'["OPENAI_API_VERSION"],
                  endpoint |-> ResolveEndpoint(tenv),
                  azure_api_version |-> tenv["AZURE_OPENAI_API_VERSION"],
                  azure_endpoint |-> tenv["AZURE_AI_AGENT_ENDPOINT"]]
    /\ UNCHANGED <<tenv0, enable_console_tracing, client_endpoint, tracer,
                   console_tracing_enabled, console_setups, tracer_inits,
                   tracer_gets, tracer_returned>>
    /\ UNCHANGED <<sessionvars, newsvars, pluginvars>>

\* tracing_application.setup_tracing_environment()
SetupTracingEnvironment ==
    /\ setups < MaxTracingCalls
    /\ setups' = setups + 1
    /\ tenv' = [tenv EXCEPT !["OPENAI_API_VERSION"] = ResolveApiVersion(tenv)]
    /\ client_endpoint' = <<ResolveEndpoint(tenv)>>
    /\ UNCHANGED <<tenv0, enable_console_tracing, config, tracer,
                   console_tracing_enabled, console_setups, tracer_inits,
                   tracer_gets, tracer_returned>>
    /\ UNCHANGED <<sessionvars, newsvars, pluginvars>>

\* what TracingManager.initialize_tracer does to the manager
DoInitializeTracer ==
    /\ tracer_inits' = tracer_inits + 1
    /\ IF ShouldSetUpConsole(ConsoleTracingRequested(enable_console_tracing),
                             console_tracing_enabled)
       THEN \* self.setup_console_tracing()
            /\ console_setups' = console_setups + 1
            /\ console_tracing_enabled' = TRUE
       ELSE UNCHANGED <<console_setups, console_tracing_enabled>>
    /\ tracer' = <<TheTracer>>
    /\ tracer_returned' = <<TheTracer>>

\* TracingManager.initialize_tracer()
InitializeTracer ==
    /\ tracer_inits < MaxTracingCalls
    /\ DoInitializeTracer
    /\ UNCHANGED <<tenv, tenv0, enable_console_tracing, setups, config,
                   client_endpoint, tracer_gets>>
    /\ UNCHANGED <<sessionvars, newsvars, pluginvars>>

\* TracingManager.get_tracer()
GetTracer ==
    /\ tracer_gets < MaxTracingCalls
    /\ tracer_gets' = tracer_gets + 1
    /\ IF tracer = <<>>
       THEN DoInitializeTracer
       ELSE /\ tracer_returned' = tracer
            /\ UNCHANGED <<tracer, tracer_inits, console_setups,
                           console_tracing_enabled>>
    /\ UNCHANGED <<tenv, tenv0, enable_console_tracing, setups, config,
                   client_endpoint>>
    /\ UNCHANGED <<sessionvars, newsvars, pluginvars>>

NextTracing ==
    \/ SetupEnvironmentVariables
    \/ SetupTracingEnvironment
    \/ InitializeTracer
    \/ GetTracer

SpecTracing == InitTracing /\ [][NextTracing]_vars

\* ========================================================= news reporter
\* src/multi-agent-systems/news_reporter/agentic_system.py
Message(r, c) == [role |-> r, content |-> c]
\* lines input() may return
ChatLines == {"exit", "Exit", " exit", "latest news"}
\* replies of the chat model
ModelReplies == {"reply A", "reply B"}
\* the user message each plugin function posts to its thread
ToolQueries == [WebSearchAgent |-> "query",
                NewsReporterAgent |-> "The topic is T and the latest information is N"]
ToolNames == {"WebSearchAgent", "NewsReporterAgent"}
\* the assistant messages a run leaves in the thread, oldest first
AssistantAnswers(n) == [i \in 1..n |-> Message("assistant", IF i = 1 THEN "answer 1" ELSE "answer 2")]

Reverse(q) == [i \in 1..Len(q) |-> q[Len(q) + 1 - i]]
IsAssistant(m) == m.role = "assistant"
\* messages.list(thread_id=...) with no order argument: the service lists the
\* newest message first
Listing(t) == Reverse(t)
\* what is left of the paged iterator messages.list returned once a `for`
\* loop has run over it: the iterator is its own __iter__ and does not rewind
AfterLoop(it) == <<>>
\* assistant_messages[0].content if assistant_messages else ""
AssistantResponse(it) ==
    LET assistant_messages == SelectSeq(it, IsAssistant)
    IN  IF assistant_messages # <<>> THEN assistant_messages[1].content ELSE ""

\* mutant: the loop also ends on 'exit' written in another case or with spaces
IsExitLoose(u) == u \in {"exit", "Exit", " exit"}
\* if userInput == "exit"
IsExit(u) == u = "exit"

InitNews ==
    /\ SessionQuiet /\ TracingQuiet /\ PluginsQuiet
    /\ chat_pc = "verify" /\ history = <<>> /\ sent = <<>> /\ typed_log = <<>>
    /\ thread = <<>> /\ tool_result = <<>> /\ tools_used = 0

\* main: the Bing connection is found
BingVerified ==
    /\ chat_pc = "verify"
    /\ chat_pc' = "input"
    /\ UNCHANGED <<history, sent, typed_log, thread, tool_result, tools_used>>
    /\ UNCHANGED <<sessionvars, tracingvars, pluginvars>>

\* main: connections.get raises, main prints the error and returns
BingMissing ==
    /\ chat_pc = "verify"
    /\ chat_pc' = "returned"
    /\ UNCHANGED <<history, sent, typed_log, thread, tool_result, tools_used>>
    /\ UNCHANGED <<sessionvars, tracingvars, pluginvars>>

\* one pass of the chat loop up to the model call
ChatInput ==
    /\ chat_pc = "input" /\ Len(typed_log) < MaxChat
    /\ \E userInput \in ChatLines :
        /\ typed_log' = Append(typed_log, userInput)
        /\ IF IsExit(userInput)
           THEN /\ chat_pc' = "ended"
                /\ UNCHANGED <<history, sent, tools_used>>
           ELSE /\ history' = Append(history, Message("user", userInput))
                /\ sent' = Append(sent, history')
                /\ tools_used' = 0
                /\ chat_pc' = "calling"
    /\ UNCHANGED <<thread, tool_result>>
    /\ UNCHANGED <<sessionvars, tracingvars, pluginvars>>

\* the model asks for a plugin function (FunctionChoiceBehavior.Auto): the
\* function runs an agent on a new thread and returns; the chat service adds
\* the function call and the function result to the history it was given
ToolCall(name) ==
    /\ chat_pc = "calling" /\ tools_used < MaxTools
    /\ \E n \in 0..(MaxMessages - 1) :
        /\ thread' = <<Message("user", ToolQueries[name])>> \o AssistantAnswers(n)
        /\ tool_result' = <<AssistantResponse(AfterLoop(Listing(thread')))>>
    /\ tools_used' = tools_used + 1
    /\ history' = history \o <<Message("assistant", name),
                               Message("tool", tool_result'[1])>>
    /\ UNCHANGED <<chat_pc, sent, typed_log>>
    /\ UNCHANGED <<sessionvars, tracingvars, pluginvars>>

WebSearchAgent == ToolCall("WebSearchAgent")
NewsReporterAgent == ToolCall("NewsReporterAgent")

\* get_chat_message_content returns; the loop adds the result to the history
ChatReply ==
    /\ chat_pc = "calling"
    /\ \E reply \in ModelReplies :
        history' = Append(history, Message("assistant", reply))
    /\ chat_pc' = "input"
    /\ UNCHANGED <<sent, typed_log, thread, tool_result, tools_used>>
    /\ UNCHANGED <<sessionvars, tracingvars, pluginvars>>

\* get_chat_message_content raises: nothing in main catches it
ChatRaises ==
    /\ chat_pc = "calling"
    /\ chat_pc' = "crashed"
    /\ UNCHANGED <<history, sent, typed_log, thread, tool_result, tools_used>>
    /\ UNCHANGED <<sessionvars, tracingvars, pluginvars>>

NextNews ==
    \/ BingVerified
    \/ BingMissing
    \/ ChatInput
    \/ WebSearchAgent
    \/ NewsReporterAgent
    \/ ChatReply
    \/ ChatRaises

SpecNews == InitNews /\ [][NextNews]_vars

\* ================================================== agent with plugins
\* src/Agents/ai_agent_with_plugins.py
TextItem == [type |-> "text", file_id |-> ""]
ImageItem(f) == [type |-> "image_file", file_id |-> f]
\* the content of one listed message
Contents == {<<>>, <<TextItem>>, <<ImageItem("file-1")>>,
             <<TextItem, ImageItem("file-2")>>}
RECURSIVE SeqsUpTo(_, _)
SeqsUpTo(S, n) ==
    IF n = 0 THEN {<<>>}
    ELSE LET shorter == SeqsUpTo(S, n - 1)
         IN  shorter \cup {Append(q, x) : q \in shorter, x \in S}
\* what messages.list may return
MessageLists == SeqsUpTo(Contents, MaxMessages)
RunStatuses == {"completed", "failed"}

RECURSIVE Items(_)
\* the content items in the order the nested loops visit them
Items(msgs) == IF msgs = <<>> THEN <<>> ELSE msgs[1] \o Items(Tail(msgs))
IsImage(item) == item.type = "image_file"
\* file_id after the loops: the last image found, <<>> while never assigned
ScanFileId(msgs) ==
    LET images == SelectSeq(Items(msgs), IsImage)
    IN  IF images = <<>> THEN <<>> ELSE <<images[Len(images)].file_id>>
FileName(f) == <<f, "_image_file.png">>

\* main is at a call of the service that may raise
AtServiceCall ==
    \/ p_pc \in {"start", "created", "thread", "message", "ran", "saved"}
    \/ p_pc = "scanned" /\ file_id # <<>>

InitPlugins ==
    /\ SessionQuiet /\ TracingQuiet /\ NewsQuiet
    /\ p_pc = "start" /\ agents_created = 0 /\ agents_deleted = 0
    /\ run_status = "none" /\ messages = <<>> /\ file_id = <<>>
    /\ saved = <<>> /\ final_printed = FALSE /\ returned = "pending"

\* agent = project_client.agents.create_agent(...)
CreateAgent ==
    /\ p_pc = "start"
    /\ agents_created' = agents_created + 1
    /\ p_pc' = "created"
    /\ UNCHANGED <<agents_deleted, run_status, messages, file_id, saved,
                   final_printed, returned>>
    /\ UNCHANGED <<sessionvars, tracingvars, newsvars>>

\* thread = project_client.agents.threads.create()
CreateThread ==
    /\ p_pc = "created"
    /\ p_pc' = "thread"
    /\ UNCHANGED <<agents_created, agents_deleted, run_status, messages,
                   file_id, saved, final_printed, returned>>
    /\ UNCHANGED <<sessionvars, tracingvars, newsvars>>

\* message = project_client.agents.messages.create(...)
CreateMessage ==
    /\ p_pc = "thread"
    /\ p_pc' = "message"
    /\ UNCHANGED <<agents_created, agents_deleted, run_status, messages,
                   file_id, saved, final_printed, returned>>
    /\ UNCHANGED <<sessionvars, tracingvars, newsvars>>

\* run = runs.create_and_process(...); a failed run is printed, main goes on
CreateAndProcess ==
    /\ p_pc = "message"
    /\ run_status' \in RunStatuses
    /\ p_pc' = "ran"
    /\ UNCHANGED <<agents_created, agents_deleted, messages, file_id, saved,
                   final_printed, returned>>
    /\ UNCHANGED <<sessionvars, tracingvars, newsvars>>

\* messages = messages.list(...) and the loops looking for an image
ListMessages ==
    /\ p_pc = "ran"
    /\ messages' \in MessageLists
    /\ file_id' = ScanFileId(messages')
    /\ p_pc' = "scanned"
    /\ UNCHANGED <<agents_created, agents_deleted, run_status, saved,
                   final_printed, returned>>
    /\ UNCHANGED <<sessionvars, tracingvars, newsvars>>

\* file_name = f"{file_id}_image_file.png"; files.save(...)
SaveImage ==
    /\ p_pc = "scanned" /\ file_id # <<>>
    /\ saved' = Append(saved, [file_id |-> file_id[1],
                               file_name |-> FileName(file_id[1])])
    /\ p_pc' = "saved"
    /\ UNCHANGED <<agents_created, agents_deleted, run_status, messages,
                   file_id, final_printed, returned>>
    /\ UNCHANGED <<sessionvars, tracingvars, newsvars>>

\* file_name = f"{file_id}..." with file_id never assigned: UnboundLocalError,
\* caught by `except Exception`, which prints and lets main return None
SaveUnbound ==
    /\ p_pc = "scanned" /\ file_id = <<>>
    /\ p_pc' = "failed_unbound"
    /\ returned' = "None"
    /\ UNCHANGED <<agents_created, agents_deleted, run_status, messages,
                   file_id, saved, final_printed>>
    /\ UNCHANGED <<sessionvars, tracingvars, newsvars>>

\* the final conversation is printed, the agent deleted and returned
Cleanup ==
    /\ p_pc = "saved"
    /\ final_printed' = TRUE
    /\ agents_deleted' = agents_deleted + 1
    /\ returned' = "agent"
    /\ p_pc' = "returned"
    /\ UNCHANGED <<agents_created, run_status, messages, file_id, saved>>
    /\ UNCHANGED <<sessionvars, tracingvars, newsvars>>

\* a call of the service raises: `except Exception` prints, main returns None
\* (delete_agent is the last call: the conversation was printed before it)
ServiceRaises ==
    /\ AtServiceCall
    /\ final_printed' = (p_pc = "saved")
    /\ p_pc' = "failed_service"
    /\ returned' = "None"
    /\ UNCHANGED <<agents_created, agents_deleted, run_status, messages,
                   file_id, saved>>
    /\ UNCHANGED <<sessionvars, tracingvars, newsvars>>

NextPlugins ==
    \/ CreateAgent
    \/ CreateThread
    \/ CreateMessage
    \/ CreateAndProcess
    \/ ListMessages
    \/ SaveImage
    \/ SaveUnbound
    \/ Cleanup
    \/ ServiceRaises

SpecPlugins == InitPlugins /\ [][NextPlugins]_vars

\* ================================================================ claims
Turns == Len(transcript) - 1      \* turns appended after the seed

\* C1: a run that ends at the round limit has appended exactly max_rounds
\* turns after the seed, and in every state the k-th appended turn (k from 0)
\* is spoken by members[k mod P]; max_rounds = 1 gives one turn, by members[1].
C1_RoundRobinTurns ==
    /\ \A k \in 0..(Len(transcript) - 2) :
          transcript[k + 2].speaker = members[(k % Len(members)) + 1]
    /\ state = "RoundLimitReached" => Len(transcript) = max_rounds + 1
    /\ (state = "RoundLimitReached" /\ max_rounds = 1) =>
          (Len(transcript) = 2 /\ transcript[2].speaker = members[1])

C1_Witness ==
    /\ state = "RoundLimitReached"
    /\ max_rounds = MAX_ROUNDS
    /\ members = <<WRITER_NAME, REVIEWER_NAME>>
    /\ Len(transcript) = MAX_ROUNDS + 1
    /\ transcript[MAX_ROUNDS + 1].speaker = WRITER_NAME

\* the sentinel phrase of the reviewer's instructions
ContainsGoodToGo(c) == c \in {"The article is good to go."}

\* C2: whenever an appended turn's content contains 'good to go', that turn
\* is the last one: the run has stopped right after it and no later
\* participant is invoked.
C2_StopsOnGoodToGo ==
    \A i \in 2..Len(transcript) :
        ContainsGoodToGo(transcript[i].content) =>
            /\ i = Len(transcript)
            /\ state # "Running"
            /\ inflight = 0

\* C3: the number of turns taken never exceeds max_rounds, and a run whose
\* round counter has reached max_rounds is Terminated(RoundLimitReached) with
\* no call pending and no call issued beyond the budget.
C3_RoundBudget ==
    /\ rounds <= max_rounds
    /\ state # "Idle" => (rounds = Turns /\ Turns <= max_rounds)
    /\ rounds = max_rounds =>
          /\ state = "RoundLimitReached"
          /\ inflight = 0
          /\ pc # "awaiting"
          /\ Len(calls) = max_rounds

C3_Witness ==
    /\ state = "RoundLimitReached"
    /\ rounds = max_rounds
    /\ max_rounds > 1
\* C5: after a participant invocation raised, the run is Terminated(Failed)
\* and the failure has reached the caller; the failed call is the last call
\* issued, nothing is pending, no turn was appended for it, and the
\* transcript is the seed followed by the turns of the calls that completed.
C5_FailureStopsRun ==
    /\ state = "Failed" <=> raised = "ParticipantFailure"
    /\ raised = "ParticipantFailure" =>
          /\ pc # "awaiting"
          /\ inflight = 0
          /\ result = NoResult
          /\ Len(calls) = rounds + 1
          /\ Len(transcript) = rounds + 1
          /\ transcript[1] = Turn("user", task)
          /\ \A i \in 1..rounds :
                /\ transcript[i + 1].speaker = calls[i].speaker
                /\ transcript[i + 1].content \in GeneratorOutputs

C5_Witness ==
    /\ state = "Failed"
    /\ raised = "ParticipantFailure"
    /\ rounds >= 2

C8_ResultIsLastTurn ==
    state \in {"Completed", "RoundLimitReached"} =>
        /\ result = transcript[Len(transcript)].content
        /\ transcript[Len(transcript)].speaker = calls[Len(calls)].speaker

C8_Witness ==
    /\ state = "RoundLimitReached"
    /\ max_rounds >= 2
    /\ result = transcript[Len(transcript)].content
    /\ result # transcript[2].content

\* C9: the calls issued are as many as the appended turns, plus one exactly
\* while a call is pending or after it failed; the i-th call is the call of
\* round i, so no round has two calls.
C9_OneCallPerTurn ==
    /\ state = "Idle" => calls = <<>>
    /\ state # "Idle" =>
          /\ Len(calls) \in {Turns, Turns + 1}
          /\ (Len(calls) = Turns + 1) <=> (pc = "awaiting" \/ state = "Failed")
    /\ \A i \in 1..Len(calls) : calls[i].round = i

C9_Witness ==
    /\ pc = "awaiting"
    /\ Turns = 2
    /\ Len(calls) = 3

\* C10: a Terminated run has no call pending, and every step taken while it
\* is Terminated, other than the start of a new run, leaves its state, its
\* transcript, its calls and its callback invocations as they are.
C10_TerminatedIsFinal ==
    /\ [](state \in Terminated => (pc # "awaiting" /\ inflight = 0))
    /\ [][(state \in Terminated /\ runs' = runs) =>
            /\ state' = state
            /\ transcript' = transcript
            /\ calls' = calls
            /\ observed' = observed
            /\ inflight' = 0]_vars

C10_Witness ==
    /\ state \in Terminated
    /\ pc = "exited"
\* C12 (as stated): after N completed turns the transcript holds N entries.
C12_LengthEqualsTurns ==
    state # "Idle" => Len(transcript) = rounds

\* C12 (amended): after N completed turns the transcript holds N + 1
\* entries, the seed task turn and the N turns, for every N reached.
C12_LengthIsSeedPlusTurns ==
    /\ state = "Idle" => (transcript = <<>> /\ rounds = 0)
    /\ state # "Idle" =>
          /\ Len(transcript) = rounds + 1
          /\ transcript[1].speaker = "user"
          /\ \A i \in 2..Len(transcript) : transcript[i].speaker # "user"

C12_Witness ==
    /\ state = "Running"
    /\ rounds = 2
    /\ Len(transcript) = 3

\* C13: within a run every step keeps the turns already in the transcript,
\* unchanged and in place (the old transcript is a prefix of the new one),
\* and the first element is always the seed: speaker "user", content the task.
C13_AppendOnly ==
    /\ [](state # "Idle" => transcript[1] = Turn("user", task))
    /\ [][runs' = runs =>
            /\ Len(transcript') >= Len(transcript)
            /\ SubSeq(transcript', 1, Len(transcript)) = transcript]_vars

C13_Witness ==
    /\ state = "Running"
    /\ Len(transcript) = 3
    /\ transcript[2].content # transcript[3].content
\* C15: a call is pending exactly while the run waits for it and it is the
\* latest call issued; every step that issues a call issues one call only,
\* the call of the turn that follows the turns already in the transcript, so
\* the call for turn k+1 is issued with turns 1..k appended.
C15_StrictlySequential ==
    /\ []((pc = "awaiting") <=> (inflight # 0))
    /\ [](pc = "awaiting" =>
            /\ Len(calls) = Len(transcript)
            /\ calls[Len(calls)].speaker = members[inflight])
    /\ [][((runs' # runs /\ state' = "Running") \/ (runs' = runs /\ calls' # calls)) =>
            /\ Len(calls') = (IF runs' = runs THEN Len(calls) + 1 ELSE 1)
            /\ calls'[Len(calls')].round = Len(transcript')
            /\ pc' = "awaiting"]_vars

C15_Witness ==
    /\ pc = "awaiting"
    /\ Len(calls) = 3
    /\ Len(transcript) = 3
    /\ Len(members) >= 2

WriterCalls == Cardinality({i \in 1..Len(calls) : calls[i].speaker = WRITER_NAME})
WriterFailedOnSecondCall ==
    /\ members = <<WRITER_NAME, REVIEWER_NAME>>
    /\ state = "Failed"
    /\ calls[Len(calls)].speaker = WRITER_NAME
    /\ WriterCalls = 2

\* C16: with members [Writer, Reviewer], when the Writer's second invocation
\* raises the run has failed with no turn appended for it, and the
\* transcript holds the seed and the two turns before: Writer's, Reviewer's.
C16_WriterSecondCallFails ==
    WriterFailedOnSecondCall =>
        /\ raised = "ParticipantFailure"
        /\ pc # "awaiting"
        /\ result = NoResult
        /\ Len(calls) = 3
        /\ rounds = 2
        /\ Len(transcript) = 3
        /\ transcript[2].speaker = WRITER_NAME
        /\ transcript[3].speaker = REVIEWER_NAME

C16_Witness ==
    /\ WriterFailedOnSecondCall
    /\ Len(transcript) = 3
    /\ raised = "ParticipantFailure"

ProgramConfig ==
    /\ members = <<WRITER_NAME, REVIEWER_NAME>>
    /\ max_rounds = MAX_ROUNDS

C18_FreshRun ==
    /\ [](runs = 0 => (transcript = <<>> /\ rounds = 0))
    /\ [][runs' = runs + 1 =>
            /\ rounds' = 0
            /\ observed' = <<>>
            /\ result' = NoResult
            /\ state' \in {"Running", "Idle"}
            /\ state' = "Running" =>
                  (transcript' = <<Turn("user", task')>> /\ Len(calls') = 1)
            /\ state' = "Idle" => (transcript' = <<>> /\ calls' = <<>>)]_vars

C18_Witness ==
    /\ runs >= 2
    /\ stopped >= 1
    /\ state = "Running"
    /\ Len(transcript) = 1

\* C20: the runtime is started and not yet stopped exactly while a run waits
\* for a call; whenever _run_orchestration has returned or raised, every
\* runtime that was started has been stopped, once.
C20_RuntimeStopped ==
    /\ started <= runs
    /\ pc = "awaiting" => started = stopped + 1
    /\ pc # "awaiting" => started = stopped

C20_Witness ==
    /\ state = "Failed"
    /\ started = 2
    /\ stopped = 2
Shorter(a, b) == IF Len(a) <= Len(b) THEN Len(a) ELSE Len(b)

\* C14: in a session of deterministic stubs, a run given the task of the
\* finished run before it agrees with that run on every turn both have
\* (speaker and content, in order), and when both ended at the round limit
\* their transcripts and results are identical.
C14_SameRunsSameTranscript ==
    (prev.valid /\ prev.task = task /\ state # "Idle") =>
        /\ \A i \in 1..Shorter(transcript, prev.transcript) :
              transcript[i] = prev.transcript[i]
        /\ (state = "RoundLimitReached" /\ prev.state = "RoundLimitReached") =>
              /\ transcript = prev.transcript
              /\ result = prev.result

C14_Witness ==
    /\ prev.valid
    /\ prev.task = task
    /\ prev.state = "RoundLimitReached"
    /\ state = "RoundLimitReached"
    /\ Len(members) = 2
    /\ Len(transcript) >= 4
    /\ transcript = prev.transcript

\* the lines of Inputs that read 'exit' once stripped, whatever the case,
\* and those that are empty once stripped
ExitLines == { <<"e","x","i","t">>, <<" ","E","x","I","t","\t">> }
BlankLines == { <<>>, <<" ">> }

\* C19: the loop has ended exactly when the line read last is 'exit' once
\* stripped, in any case; an empty line starts no run and leaves the loop
\* at the prompt, an 'exit' line starts no run, every other line starts
\* one run; lines are read at the prompt only, and a run that raised
\* leaves the loop at the prompt.
C19_LoopEndsOnExit ==
    /\ []((pc = "exited") <=> (prompts > 0 /\ typed \in ExitLines))
    /\ [](raised # "none" => pc # "awaiting")
    /\ [][prompts' # prompts =>
            /\ pc = "prompt"
            /\ prompts' = prompts + 1
            /\ typed' \in BlankLines =>
                  (pc' = "prompt" /\ UNCHANGED <<runs, state, transcript, calls, started>>)
            /\ typed' \in ExitLines => runs' = runs
            /\ typed' \notin (BlankLines \cup ExitLines) => runs' = runs + 1]_vars
    /\ [][runs' # runs => prompts' = prompts + 1]_vars

C19_Witness ==
    /\ pc = "exited"
    /\ state = "Failed"
    /\ raised = "ParticipantFailure"
    /\ typed = <<" ","E","x","I","t","\t">>

\* C21: a request raises ValueError exactly when at least one of the four
\* Azure OpenAI variables is unset or empty, and then nothing is created for
\* the request (no service, no turn, no call, the runtime not started);
\* otherwise the service receives the four values in the order api_key,
\* deployment_name, endpoint, api_version.
C21_MissingEnvRaises ==
    runs > 0 =>
        LET missing == \E n \in EnvNames : env[n] = <<>> \/ env[n] = <<"">>
        IN  /\ (raised = "ValueError") <=> missing
            /\ missing => /\ service = <<>>
                          /\ state = "Idle"
                          /\ transcript = <<>>
                          /\ calls = <<>>
                          /\ inflight = 0
                          /\ started = 0
            /\ ~missing => service = <<"k3y", "gpt-4o", "https://aoai", "2024-10-21">>

C21_Witness ==
    /\ runs > 0
    /\ raised = "ValueError"
    /\ env["AZURE_OPENAI_ENDPOINT"] = <<"">>
    /\ \A n \in EnvNames \ {"AZURE_OPENAI_ENDPOINT"} : env[n] = EnvSetting(n)

\* C22: once either setup function has run, OPENAI_API_VERSION is set and
\* non-empty: a non-empty value the process started with is kept, otherwise
\* it is AZURE_OPENAI_API_VERSION when that is set and non-empty, otherwise
\* '2024-02-15-preview'; further calls change nothing, so the value is the
\* same after one call and after several, and no other variable is touched.
C22_ApiVersionResolved ==
    setups > 0 =>
        LET old == tenv0["OPENAI_API_VERSION"]
            azure == tenv0["AZURE_OPENAI_API_VERSION"]
            now == tenv["OPENAI_API_VERSION"]
            Missing(x) == x = <<>> \/ x = <<"">>
        IN  /\ ~Missing(now)
            /\ ~Missing(old) => now = old
            /\ (Missing(old) /\ ~Missing(azure)) => now = azure
            /\ (Missing(old) /\ Missing(azure)) => now = <<"2024-02-15-preview">>
            /\ \A n \in TracingNames \ {"OPENAI_API_VERSION"} : tenv[n] = tenv0[n]

C22_Witness ==
    /\ setups >= 2
    /\ config # <<>> /\ client_endpoint # <<>>
    /\ tenv0["OPENAI_API_VERSION"] = <<"">>
    /\ tenv0["AZURE_OPENAI_API_VERSION"] = <<"2024-10-21">>
    /\ tenv["OPENAI_API_VERSION"] = <<"2024-10-21">>

\* C23: on one TracingManager console tracing is set up at most once, and
\* only when ENABLE_CONSOLE_TRACING is 'true' in some mix of cases; get_tracer
\* initializes when no tracer is stored, and otherwise returns the stored
\* tracer and initializes nothing.
C23_ConsoleTracingOnce ==
    /\ [](console_setups <= 1)
    /\ [](console_setups > 0 =>
              enable_console_tracing \in {<<<<"t","r","u","e">>>>,
                                          <<<<"T","r","u","e">>>>,
                                          <<<<"T","R","U","E">>>>})
    /\ [][tracer_gets' = tracer_gets + 1 =>
            IF tracer = <<>>
            THEN /\ tracer_inits' = tracer_inits + 1
                 /\ tracer' # <<>>
                 /\ tracer_returned' = tracer'
            ELSE /\ tracer_inits' = tracer_inits
                 /\ console_setups' = console_setups
                 /\ tracer' = tracer
                 /\ tracer_returned' = tracer]_vars

C23_Witness ==
    /\ enable_console_tracing = <<<<"T","R","U","E">>>>
    /\ console_setups = 1
    /\ tracer_inits = MaxTracingCalls
    /\ tracer_gets >= 2

\* C24: each plugin function returns the content of the last message with
\* role 'assistant' in its thread, and the empty string when the thread has
\* no assistant message.
C24_ReturnsLastAssistant ==
    tool_result # <<>> =>
        LET answers == SelectSeq(thread, IsAssistant)
        IN  tool_result[1] = IF answers # <<>>
                             THEN answers[Len(answers)].content
                             ELSE ""

UserMessages(h) == SelectSeq(h, LAMBDA m : m.role = "user")
ToolMessages(h) == SelectSeq(h, LAMBDA m : m.role = "tool")
OtherLines(log) == SelectSeq(log, LAMBDA u : u # "exit")
\* the loop is between two inputs, or was left
BetweenInputs == chat_pc \in {"input", "ended"}

\* what C25 says about the end of the loop, 'exit' and the model calls: the
\* loop is left exactly when the line read last is 'exit' as typed; 'exit'
\* is never a user message of the history; the i-th model call receives the
\* history whose newest message is the i-th line other than 'exit'.
C25_ExitAndCalls ==
    /\ (chat_pc = "ended") <=> (typed_log # <<>> /\ typed_log[Len(typed_log)] = "exit")
    /\ \A i \in 1..(Len(typed_log) - 1) : typed_log[i] # "exit"
    /\ \A i \in 1..Len(history) :
          ~(history[i].role = "user" /\ history[i].content = "exit")
    /\ Len(sent) = Len(OtherLines(typed_log))
    /\ \A i \in 1..Len(sent) :
          /\ sent[i] # <<>>
          /\ sent[i][Len(sent[i])] = Message("user", OtherLines(typed_log)[i])
          /\ SubSeq(history, 1, Len(sent[i])) = sent[i]

\* C25: between two inputs, after k lines other than 'exit', the history
\* holds exactly 2k messages, the k-th pair being that line as a user message
\* followed by an assistant reply; the loop ends exactly on 'exit', which is
\* never added, and each model call receives the history with the current line.
C25_HistoryHoldsPairs ==
    /\ C25_ExitAndCalls
    /\ BetweenInputs =>
          LET lines == OtherLines(typed_log)
          IN  /\ Len(history) = 2 * Len(lines)
              /\ \A i \in 1..Len(lines) :
                    /\ 2 * i <= Len(history)
                    /\ history[2 * i - 1] = Message("user", lines[i])
                    /\ history[2 * i].role = "assistant"

\* C25 as the program has it: between two inputs, after k lines other than
\* 'exit', the history holds the k lines as its user messages in input order
\* and ends with the k-th reply; every plugin call made for a reply adds a
\* function-call and a function-result message before that reply, so the
\* history holds 2k messages plus two per plugin call, and exactly 2k
\* alternating messages when no plugin was called. The rest is as claimed.
C25_HistoryHoldsTurns ==
    /\ C25_ExitAndCalls
    /\ LET lines == OtherLines(typed_log)
           users == UserMessages(history)
       IN  /\ Len(users) = Len(lines)
           /\ \A i \in 1..Len(lines) : users[i].content = lines[i]
           /\ history # <<>> => history[1].role = "user"
           /\ BetweenInputs =>
                 /\ Len(history) = 2 * Len(lines) + 2 * Len(ToolMessages(history))
                 /\ history # <<>> =>
                       /\ history[Len(history)].role = "assistant"
                       /\ history[Len(history)].content \in {"reply A", "reply B"}
                 /\ \A i \in 2..Len(history) :
                       history[i].role = "user" =>
                           /\ history[i - 1].role = "assistant"
                           /\ history[i - 1].content \in {"reply A", "reply B"}
                 /\ ToolMessages(history) = <<>> =>
                       \A i \in 1..Len(lines) :
                           /\ history[2 * i - 1] = Message("user", lines[i])
                           /\ history[2 * i].role = "assistant"

C25_Witness ==
    /\ chat_pc = "ended"
    /\ typed_log = <<" exit", "exit">>
    /\ Len(history) = 4
    /\ history[1] = Message("user", " exit")
    /\ history[3].role = "tool"

\* main has returned
MainOver == p_pc \in {"returned", "failed_unbound", "failed_service"}
\* some listed message holds an image_file item
ImageFound == \E i \in 1..Len(messages) : \E j \in 1..Len(messages[i]) :
                  messages[i][j].type = "image_file"

\* C26: when main has returned, every agent create_agent returned has been
\* deleted, whatever the path: a failed run, no image, or an exception
\* raised after the agent was created.
C26_AgentAlwaysDeleted ==
    MainOver => agents_deleted = agents_created

\* C27: files.save is called only with the file_id of an image_file item of
\* the listed messages; when the messages were listed without a service
\* error and hold no image, main saves nothing, prints the final
\* conversation and returns the agent.
C27_SavesOnlyFoundImage ==
    /\ \A k \in 1..Len(saved) :
          \E i \in 1..Len(messages) : \E j \in 1..Len(messages[i]) :
              /\ messages[i][j].type = "image_file"
              /\ messages[i][j].file_id = saved[k].file_id
    /\ (MainOver /\ p_pc # "failed_service" /\ ~ImageFound) =>
          /\ saved = <<>>
          /\ final_printed
          /\ returned = "agent"


====
